---- MODULE Spec2Model ----
(***************************************************************************)
(* svgthing: detection of REAPER's yellow/pink 1-pixel border on a         *)
(* rendered bitmap (src/src/bounds.rs), the upscaling render               *)
(* (src/src/render.rs) and the batch driver (src/src/main.rs).             *)
(*                                                                         *)
(* Spec        the batch driver: every entry of ./svg is rendered at       *)
(*             scale 1, its four edges are scanned pixel by pixel, and     *)
(*             the image is upscaled and saved.                            *)
(* SpecRender  render_upscaled called with arbitrary arguments.            *)
(***************************************************************************)
EXTENDS Integers, Sequences, FiniteSets, TLC

VARIABLES
    pc,         \* Spec: position of main; "api" under SpecRender
    remaining,  \* directory entries not yet visited by the for loop
    entry,      \* the entry being processed: stem, pixmap_1 size
    px,         \* pixmap_1: the pixels the scan has looked at so far
    side,       \* which of the four parse_bound_side calls is running (1..4)
    strip,      \* pixels read by the current parse_bound_side call, in order
    result,     \* `result` of parse_bound_side: their BoundPixel classes
    ret,        \* return value of the current parse_bound_side call
    sides,      \* return values of the calls that returned Some, in call order
    detected,   \* return value of detect_reaper_bounds
    upscaled,   \* return value of render_upscaled
    outcome,    \* what the loop body did for the last entry
    req,        \* the arguments of the call made under SpecRender and the like
    target,     \* the bitmap being drawn on
    out         \* return value of the call made with req

vars == <<pc, remaining, entry, px, side, strip, result, ret, sides, detected,
          upscaled, outcome, req, target, out>>

(***************************************************************************)
(* Bounds of the model.                                                    *)
(***************************************************************************)
MaxW == 4          \* widest pixmap_1
MaxH == 3          \* tallest pixmap_1
MaxEntries == 2    \* entries of ./svg
MaxScaleQ == 8     \* largest scale of a render_upscaled call, in quarters
MaxTiles == 2      \* largest tile count of VerticalTiles/HorizontalTiles/Grid
MaxBound == 1      \* largest field of a Bounds argument
MaxSrc2 == 10      \* largest source width/height, in half pixels
MaxField == 3      \* largest field of the receiver of a Bounds::scale call
MaxChunks == 4     \* most pieces of a parser input
MaxParts == 3      \* most pieces of a document given to map_colors

Min(a, b) == IF a < b THEN a ELSE b

(***************************************************************************)
(* Pixels.  tiny_skia stores premultiplied RGBA8: no channel exceeds alpha.*)
(***************************************************************************)
Opaque == 255

Transparent == <<0, 0, 0, 0>>
Yellow == <<255, 255, 0, 255>>
Pink == <<255, 0, 255, 255>>
HalfYellow == <<128, 128, 0, 128>>     \* yellow at half alpha
White == <<255, 255, 255, 255>>
Red == <<255, 0, 0, 255>>

\* The pixels a rendered bitmap is made of in the model.
Pixels == {Transparent, Yellow, Pink, HalfYellow, White, Red}

Unread == <<0, 0, 0, 1>>    \* not a pixel: marks a coordinate not looked at

\* Classify without the test of full opacity: a translucent yellow or pink
\* counts as a marker.
ClassifyNoAlpha(pixel) ==
    IF pixel[4] = 0 THEN "Transparent"
    ELSE IF pixel[1] = pixel[4] /\ pixel[2] = pixel[4] /\ pixel[3] = 0 THEN "Yellow"
    ELSE IF pixel[1] = pixel[4] /\ pixel[2] = 0 /\ pixel[3] = pixel[4] THEN "Pink"
    ELSE "Other"

\* bounds.rs 121-146: the class pushed for one pixel, "Other" where the
\* function returns None.
Classify(pixel) ==
    IF pixel[4] = 0 THEN "Transparent"
    ELSE IF pixel[4] = Opaque /\ pixel[1] = 255 /\ pixel[2] = 255 /\ pixel[3] = 0
        THEN "Yellow"
    ELSE IF pixel[4] = Opaque /\ pixel[1] = 255 /\ pixel[2] = 0 /\ pixel[3] = 255
        THEN "Pink"
    ELSE "Other"

(***************************************************************************)
(* Option<(u32, u32)>                                                      *)
(***************************************************************************)
None == [st |-> "none", y |-> 0, p |-> 0]
Some(yw, pw) == [st |-> "some", y |-> yw, p |-> pw]
Pending == [st |-> "pending", y |-> 0, p |-> 0]

(***************************************************************************)
(* bounds.rs 150-202: the widths of a classified strip.  `i` is the        *)
(* 0-based index of the loop; prev_pixel is "None" before the first pixel. *)
(***************************************************************************)
RECURSIVE ScanFrom(_, _, _, _, _)
ScanFrom(res, i, prev_pixel, yellow_width, pink_width) ==
    IF i >= Len(res)
    THEN LET max_width == Len(res) - 2
         IN  Some(Min(yellow_width, max_width), Min(pink_width, max_width))
    ELSE
        LET pixel == res[i + 1] IN
        CASE prev_pixel = "None" ->
                CASE pixel = "Yellow" -> ScanFrom(res, i + 1, "Yellow", i, pink_width)
                  [] pixel = "Pink" -> ScanFrom(res, i + 1, "Pink", yellow_width, i)
                  [] OTHER -> None
          [] prev_pixel = "Yellow" ->
                CASE pixel = "Yellow" -> ScanFrom(res, i + 1, "Yellow", i, pink_width)
                  [] pixel = "Pink" -> ScanFrom(res, i + 1, "Pink", yellow_width, i)
                  [] OTHER -> ScanFrom(res, i + 1, "Transparent", yellow_width, pink_width)
          [] prev_pixel = "Pink" ->
                CASE pixel = "Pink" -> ScanFrom(res, i + 1, "Pink", yellow_width, i)
                  [] pixel = "Transparent" ->
                        ScanFrom(res, i + 1, "Transparent", yellow_width, pink_width)
                  [] OTHER -> None
          [] OTHER ->
                CASE pixel = "Transparent" ->
                        ScanFrom(res, i + 1, "Transparent", yellow_width, pink_width)
                  [] OTHER -> None

\* Variants of ScanWidths with one slip each.
LastIndex(res, class) ==
    IF \A k \in 1..Len(res) : res[k] # class THEN 0
    ELSE (CHOOSE k \in 1..Len(res) :
              res[k] = class /\ \A j \in (k + 1)..Len(res) : res[j] # class) - 1

\* yellow followed by pink treated like pink followed by yellow
ScanWidthsNoAbut(res) ==
    IF Len(res) < 3 THEN None
    ELSE IF \E k \in 1..(Len(res) - 1) : res[k] = "Yellow" /\ res[k + 1] = "Pink" THEN None
    ELSE ScanFrom(res, 0, "None", 0, 0)

\* an invalid sequence reported as a border of width 0
ScanWidthsZeroOnFail(res) ==
    IF Len(res) < 3 THEN None
    ELSE IF ScanFrom(res, 0, "None", 0, 0) = None THEN Some(0, 0)
    ELSE ScanFrom(res, 0, "None", 0, 0)

\* the pink width counted from the first pink pixel
ScanWidthsPinkRun(res) ==
    IF Len(res) < 3 \/ ScanFrom(res, 0, "None", 0, 0) = None THEN None
    ELSE LET r == ScanFrom(res, 0, "None", 0, 0)
             first_pink == Cardinality({k \in 1..Len(res) : res[k] = "Yellow"})
         IN  Some(r.y, IF r.p = 0 THEN 0 ELSE Min(LastIndex(res, "Pink") - first_pink,
                                                   Len(res) - 2))

\* the widths not limited to len - 2
ScanWidthsNoMin(res) ==
    IF Len(res) < 3 \/ ScanFrom(res, 0, "None", 0, 0) = None THEN None
    ELSE Some(LastIndex(res, "Yellow"), LastIndex(res, "Pink"))

\* bounds.rs 150-202
ScanWidths(res) ==
    IF Len(res) < 3 THEN None ELSE ScanFrom(res, 0, "None", 0, 0)

(***************************************************************************)
(* Bounds and Option<&Bounds>                                              *)
(***************************************************************************)
Bounds(left, right, top, bottom) == [l |-> left, r |-> right, t |-> top, b |-> bottom]

\* bounds.rs 14-16
is_empty(bounds) == bounds.l = 0 /\ bounds.r = 0 /\ bounds.t = 0 /\ bounds.b = 0

NoBounds == [some |-> FALSE, l |-> 0, r |-> 0, t |-> 0, b |-> 0]
SomeBounds(bounds) ==
    [some |-> TRUE, l |-> bounds.l, r |-> bounds.r, t |-> bounds.t, b |-> bounds.b]

(***************************************************************************)
(* Bounds::scale.  An f32 factor is the fraction num / den; 0 / 0 is NaN.  *)
(* The product value * factor is exact in f32 when den is a power of two   *)
(* and the numbers are small, as they are in the model.                    *)
(***************************************************************************)
Quarters(q) == [num |-> q, den |-> 4]
NaN == [num |-> 0, den |-> 0]

Max(a, b) == IF a > b THEN a ELSE b

\* the product rounded up, with no lower limit of 1
scale_value_no_floor(value, amount) ==
    IF value = 0 \/ amount.den = 0 THEN 0
    ELSE Max((value * amount.num + amount.den - 1) \div amount.den, 0)

\* bounds.rs 18-28.  NaN.ceil() is NaN and f32::max(NaN, 1.0) is 1.0; a
\* negative number cast to u32 gives 0, but max(1.0) comes first.
scale_value(value, amount) ==
    IF value = 0 THEN 0
    ELSE IF amount.den = 0 THEN 1
    ELSE Max((value * amount.num + amount.den - 1) \div amount.den, 1)

\* bounds.rs 30-37
scale(bounds, amount) ==
    Bounds(scale_value(bounds.l, amount), scale_value(bounds.r, amount),
           scale_value(bounds.t, amount), scale_value(bounds.b, amount))

(***************************************************************************)
(* parser.rs.  The input is a sequence of symbols: single characters, and  *)
(* "rgb(" and ";fill-opacity:" taken whole (no other symbol of the model   *)
(* begins or ends them, so no parser ever starts inside one).  Positions   *)
(* count from 1; a parser called at position i returns Ok with the         *)
(* position after what it consumed, Error (recoverable) or Failure (cut).  *)
(***************************************************************************)
Digits == {"0", "2", "5"}
Hex == Digits \cup {"f"}
HexValue(c) == CASE c = "f" -> 15 [] c = "5" -> 5 [] c = "2" -> 2 [] OTHER -> 0

At(input, i) == IF i <= Len(input) THEN input[i] ELSE "eof"

\* parser.rs 18-22
RGB(r, g, b) == [kind |-> "RGB", r |-> r, g |-> g, b |-> b, a |-> 0]
RGBA(r, g, b, a) == [kind |-> "RGBA", r |-> r, g |-> g, b |-> b, a |-> a]
NoColor == [kind |-> "none", r |-> 0, g |-> 0, b |-> 0, a |-> 0]

\* parser.rs 68-77: with_opacity(opacity) for an opacity of 0.0, the only
\* one the digits of the model can spell before the first non-digit
with_a(color, a) == IF color.kind = "RGB" THEN RGBA(color.r, color.g, color.b, a) ELSE color

\* parser.rs 79-90
is_reaper_reserved(color) ==
    IF color.kind = "RGBA" /\ color.a # 255 THEN FALSE
    ELSE \/ color.r = 255 /\ color.g = 255 /\ color.b = 0
         \/ color.r = 255 /\ color.g = 0 /\ color.b = 255

ParsedColor(next, color) == [res |-> "Ok", next |-> next, color |-> color]
ColorError == [res |-> "Error", next |-> 0, color |-> NoColor]
ColorFailure == [res |-> "Failure", next |-> 0, color |-> NoColor]

ParsedNumber(next, n) == [res |-> "Ok", next |-> next, n |-> n]
NumberError == [res |-> "Error", next |-> 0, n |-> 0]

\* alt((tag("#"), tag("0x"))): the length of the prefix at i, 0 if neither
HexPrefix(input, i) ==
    IF At(input, i) = "#" THEN 1
    ELSE IF At(input, i) = "0" /\ At(input, i + 1) = "x" THEN 2
    ELSE 0

HexRun(input, j, n) == \A k \in 0..(n - 1) : At(input, j + k) \in Hex
HexByte(input, j) == 16 * HexValue(At(input, j)) + HexValue(At(input, j + 1))

\* parser.rs 146-189
color_hex(input, i) ==
    LET j == i + HexPrefix(input, i)
        has_alpha == HexRun(input, j + 6, 2)
        next == IF has_alpha THEN j + 8 ELSE j + 6
    IN  IF HexPrefix(input, i) = 0 \/ ~HexRun(input, j, 6) \/ At(input, next) \in Hex
        THEN ColorError
        ELSE ParsedColor(next,
                 IF has_alpha
                 THEN RGBA(HexByte(input, j), HexByte(input, j + 2), HexByte(input, j + 4),
                           HexByte(input, j + 6))
                 ELSE RGB(HexByte(input, j), HexByte(input, j + 2), HexByte(input, j + 4)))

\* parser.rs 191-217
rgb_hex_short(input, i) ==
    LET j == i + HexPrefix(input, i)
    IN  IF HexPrefix(input, i) = 0 \/ ~HexRun(input, j, 3) \/ At(input, j + 3) \in Hex
        THEN ColorError
        ELSE ParsedColor(j + 3, RGB(HexValue(At(input, j)) * 17,
                                    HexValue(At(input, j + 1)) * 17,
                                    HexValue(At(input, j + 2)) * 17))

\* the end of the run of symbols of `set` that begins at i
RECURSIVE RunEnd(_, _, _)
RunEnd(input, i, set) == IF At(input, i) \in set THEN RunEnd(input, i + 1, set) ELSE i

\* the decimal value of input[i .. e - 1], 256 standing for every overflow
RECURSIVE DecimalValue(_, _, _, _)
DecimalValue(input, i, e, acc) ==
    IF i >= e THEN acc
    ELSE DecimalValue(input, i + 1, e, Min(10 * acc + HexValue(input[i]), 256))

\* nom's u8: one digit or more, Error on a value above 255
U8Value(e, n) == IF n > 255 THEN NumberError ELSE ParsedNumber(e, n)
U8Digits(input, i, e) ==
    IF e = i THEN NumberError ELSE U8Value(e, DecimalValue(input, i, e, 0))
u8(input, i) == U8Digits(input, i, RunEnd(input, i, Digits))

\* nom's space0 after the number v
space0(input, v) ==
    IF v.res = "Ok" THEN ParsedNumber(RunEnd(input, v.next, {" "}), v.n) ELSE v

\* parser.rs 104-106: delimited(space0, u8, space0)
color_rgb_value(input, i) == space0(input, u8(input, RunEnd(input, i, {" "})))

\* nom's char(c) after the number v
char(input, v, c) ==
    IF v.res = "Ok" /\ At(input, v.next) = c THEN ParsedNumber(v.next + 1, v.n)
    ELSE NumberError

\* nom's cut: an Error becomes a Failure
cut(parsed) == IF parsed.res = "Error" THEN ColorFailure ELSE parsed

\* nom's alt: the second parser runs only after an Error of the first
alt(first, second) == IF first.res = "Error" THEN second ELSE first

\* parser.rs 111-120: the three values, the commas and the ")"
RgbEnd(r, g, b) ==
    IF b.res = "Ok" THEN ParsedColor(b.next, RGB(r.n, g.n, b.n)) ELSE ColorError
RgbBlue(input, r, g) ==
    IF g.res = "Ok" THEN RgbEnd(r, g, char(input, color_rgb_value(input, g.next), ")"))
    ELSE ColorError
RgbGreen(input, r) ==
    IF r.res = "Ok" THEN RgbBlue(input, r, char(input, color_rgb_value(input, r.next), ","))
    ELSE ColorError

\* parser.rs 108-122: after tag("rgb(") every error is a Failure (cut)
rgb_numeric(input, i) ==
    IF At(input, i) # "rgb(" THEN ColorError
    ELSE cut(RgbGreen(input, char(input, color_rgb_value(input, i + 1), ",")))

\* parser.rs 219-221, 142-144: alt((color_hex, rgb_hex_short, color_numeric));
\* the input of the model has no "rgba(", so rgba_numeric returns Error
color(input, i) ==
    alt(color_hex(input, i), alt(rgb_hex_short(input, i), rgb_numeric(input, i)))

\* nom's float, here a run of the digit 0 that ends at e
float(i, e) == IF e > i THEN ParsedNumber(e, 0) ELSE NumberError

\* parser.rs 229-231
fill_opacity(input, i) ==
    IF At(input, i) = ";fill-opacity:" THEN float(i + 1, RunEnd(input, i + 1, {"0"}))
    ELSE NumberError

\* parser.rs 235-236: with_opacity for an opacity of 0.0, the only one the
\* digits of the model can spell before the first non-digit
with_opacity(parsed, opacity) ==
    IF opacity.res = "Ok" THEN ParsedColor(opacity.next, with_a(parsed.color, 0))
    ELSE parsed

\* parser.rs 234-237: the closure given to map
MatchFillOpacity(input, parsed) ==
    IF parsed.res = "Ok" THEN with_opacity(parsed, fill_opacity(input, parsed.next))
    ELSE parsed

\* parser.rs 233-238
color_with_fill_opacity(input, i) == MatchFillOpacity(input, color(input, i))

\* parser.rs 240-242: many1(preceded(not(color_with_fill_opacity), take(1)))
\* from position p on, the text having begun at i
RECURSIVE TextFrom(_, _, _)
RECURSIVE TextStep(_, _, _, _)
TextStep(input, i, p, parsed) ==
    IF parsed.res = "Failure" THEN [res |-> "Failure", next |-> 0]
    ELSE IF parsed.res = "Ok" \/ p > Len(input)
        THEN IF p = i THEN [res |-> "Error", next |-> 0] ELSE [res |-> "Ok", next |-> p]
    ELSE TextFrom(input, i, p + 1)

TextFrom(input, i, p) == TextStep(input, i, p, color_with_fill_opacity(input, p))

\* the rest of the input taken as text, colours and all
non_color_text_to_the_end(input, i) ==
    IF i > Len(input) THEN [res |-> "Error", next |-> 0]
    ELSE [res |-> "Ok", next |-> Len(input) + 1]

non_color_text(input, i) == TextFrom(input, i, i)

\* parser.rs 223-227
Text(input, i, next) ==
    [kind |-> "Text", from |-> i, next |-> next, text |-> SubSeq(input, i, next - 1),
     color |-> NoColor]
Color(i, next, c) == [kind |-> "Color", from |-> i, next |-> next, text |-> <<>>, color |-> c]

\* parser.rs 246-247: the two map calls
MapColor(p, parsed) ==
    [res |-> parsed.res, next |-> parsed.next,
     element |-> Color(p, parsed.next, parsed.color)]
MapText(input, p, parsed) ==
    [res |-> parsed.res, next |-> parsed.next, element |-> Text(input, p, parsed.next)]

\* parser.rs 244-250: many0(alt((color_with_fill_opacity, non_color_text)))
RECURSIVE ElementsFrom(_, _, _)
RECURSIVE many0(_, _, _, _)
many0(input, p, vec, parsed) ==
    IF parsed.res = "Failure" THEN [res |-> "Failure", next |-> 0, vec |-> <<>>]
    ELSE IF parsed.res = "Error" THEN [res |-> "Ok", next |-> p, vec |-> vec]
    ELSE ElementsFrom(input, parsed.next, Append(vec, parsed.element))

ElementsFrom(input, p, vec) ==
    many0(input, p, vec, alt(MapColor(p, color_with_fill_opacity(input, p)),
                             MapText(input, p, non_color_text(input, p))))

text_with_colors(input) == ElementsFrom(input, 1, <<>>)

\* nom's all_consuming and finish
all_consuming(input, parsed) ==
    IF parsed.res = "Ok" /\ parsed.next = Len(input) + 1
    THEN [res |-> "Ok", vec |-> parsed.vec]
    ELSE [res |-> "Err", vec |-> <<>>]

\* parser.rs 252-256
xml_text(input) == all_consuming(input, text_with_colors(input))

(***************************************************************************)
(* map_colors.rs.  A String is a sequence of pieces: text kept verbatim,   *)
(* or a colour as Color::to_string formats it.                             *)
(***************************************************************************)
\* parser.rs 24-37
to_string(c) ==
    [fmt |-> IF c.kind = "RGB" THEN "rgb({}, {}, {})" ELSE "rgb({}, {}, {});fill-opacity:{}",
     r |-> c.r, g |-> c.g, b |-> c.b, a255 |-> c.a]

Verbatim(text) == [text |-> text, formatted |-> to_string(NoColor)]
Formatted(c) == [text |-> <<>>, formatted |-> to_string(c)]

\* map_colors.rs 30-56: the closure applied to the parts from the k-th on,
\* collect() stopping at the first Err
RECURSIVE MapParts(_, _, _, _, _, _)
MapParts(vec, k, color_map, opt, unused_colors, pieces) ==
    IF k > Len(vec) THEN [res |-> "Ok", unused_colors |-> unused_colors, pieces |-> pieces]
    ELSE LET part == vec[k]
             old_color == part.color
         IN  IF part.kind = "Text"
             THEN MapParts(vec, k + 1, color_map, opt, unused_colors,
                           Append(pieces, Verbatim(part.text)))
             ELSE IF is_reaper_reserved(old_color)
             THEN MapParts(vec, k + 1, color_map, opt, unused_colors,
                           Append(pieces, Formatted(old_color)))
             ELSE IF old_color \in DOMAIN color_map
             THEN MapParts(vec, k + 1, color_map, opt, unused_colors \ {old_color},
                           Append(pieces, Formatted(color_map[old_color])))
             ELSE IF opt.all_svg_colors
             THEN [res |-> "Err", unused_colors |-> unused_colors, pieces |-> <<>>]
             ELSE MapParts(vec, k + 1, color_map, opt, unused_colors,
                           Append(pieces, Formatted(old_color)))

MapErr(why) == [res |-> "Err", why |-> why, pieces |-> <<>>]

\* map_colors.rs 57-64: the Result collected, then the check of unused_colors
Collected(mapped, opt) ==
    IF mapped.res = "Err" THEN MapErr("svg color not in map")
    ELSE IF opt.all_input_colors /\ mapped.unused_colors # {}
        THEN MapErr("colors not found in svg")
    ELSE [res |-> "Ok", why |-> "", pieces |-> mapped.pieces]

\* map_colors.rs 27-57
MapParsed(parsed, color_map, opt) ==
    IF parsed.res = "Err" THEN MapErr("parse error")
    ELSE Collected(MapParts(parsed.vec, 1, color_map, opt, DOMAIN color_map, <<>>), opt)

\* map_colors.rs 22-65
map_colors(xml, color_map, opt) == MapParsed(xml_text(xml), color_map, opt)

(***************************************************************************)
(* UpscaleMode and its tile counts.                                        *)
(***************************************************************************)
BUTTON_TILES == 3
SCALE == 6          \* main.rs: SCALE = 1.5, in quarters

\* The variants of UpscaleMode; a and b hold the variant's payload.
Normal == [kind |-> "Normal", a |-> 0, b |-> 0]
VerticalTiles(n) == [kind |-> "VerticalTiles", a |-> n, b |-> 0]
HorizontalTiles(n) == [kind |-> "HorizontalTiles", a |-> n, b |-> 0]
Grid(nx, ny) == [kind |-> "Grid", a |-> nx, b |-> ny]
VERTICAL_BUTTON == VerticalTiles(BUTTON_TILES)
HORIZONTAL_BUTTON == HorizontalTiles(BUTTON_TILES)

\* render.rs 100-105
Tiles(mode) ==
    CASE mode.kind = "Normal" -> <<1, 1>>
      [] mode.kind = "VerticalTiles" -> <<1, mode.a>>
      [] mode.kind = "HorizontalTiles" -> <<mode.a, 1>>
      [] OTHER -> <<mode.a, mode.b>>

\* render.rs 23-30.  `a % b` panics when b is 0.
divide_no_remainder(a, b) ==
    IF b = 0 THEN [st |-> "panic", v |-> 0]
    ELSE IF a % b # 0 THEN [st |-> "none", v |-> 0]
    ELSE [st |-> "some", v |-> a \div b]

\* rounds to the nearest pixel
CeilScaledNearest(tile, q) == (tile * q + 2) \div 4

\* rounds to the next pixel even when the product is whole
CeilScaledUp(tile, q) == (tile * q) \div 4 + 1

\* render.rs 121-122: ((tile as f32) * scale).ceil() as u32, scale = q/4.
\* Quarters are exact in f32 for the sizes of the model.
CeilScaled(tile, q) == (tile * q + 3) \div 4

\* tiny_skia Pixmap::new: None for a zero width or height (the upper size
\* limit lies beyond the sizes of the model).
PixmapNew(w, h) == w # 0 /\ h # 0

(***************************************************************************)
(* Result<Pixmap, UpscaleError> of render_upscaled, and the ways the call  *)
(* can end without returning:                                              *)
(*   kind "Ok"      w x h is the bitmap returned                           *)
(*   kind "Err"     err names the UpscaleError                             *)
(*   kind "Panic"   the call panicked (err is the reason)                  *)
(*   kind "Wrapped" outer - 2 wrapped around in a build without overflow   *)
(*                  checks; the call goes on with a width or height near   *)
(*                  2^32, which the model does not follow                  *)
(* steps lists, in order, the drawing steps made on the target bitmap.     *)
(***************************************************************************)
Outcome(k, e, ow, oh, hb, iw, ih, st) ==
    [kind |-> k, err |-> e, w |-> ow, h |-> oh, has_bounds |-> hb,
     inner_w |-> iw, inner_h |-> ih, steps |-> st]

NotCalled == Outcome("NotCalled", "", 0, 0, FALSE, 0, 0, <<>>)

\* has_bounds only when both are given
HasBoundsBoth(pink_bounds, yellow_bounds) == pink_bounds.some /\ yellow_bounds.some

\* render.rs 82
HasBounds(pink_bounds, yellow_bounds) == pink_bounds.some \/ yellow_bounds.some

\* render.rs 100-184
RenderTiled(q, mode, pink_bounds, yellow_bounds, has_bounds, inner_width, inner_height) ==
    LET tiles_x == Tiles(mode)[1]
        tiles_y == Tiles(mode)[2]
        tile_width == divide_no_remainder(inner_width, tiles_x)
        tile_height == divide_no_remainder(inner_height, tiles_y)
        final_tile_width == CeilScaled(tile_width.v, q)
        final_tile_height == CeilScaled(tile_height.v, q)
        final_inner_width == final_tile_width * tiles_x
        final_inner_height == final_tile_height * tiles_y
        final_outer_width == IF has_bounds THEN final_inner_width + 2 ELSE final_inner_width
        final_outer_height ==
            IF has_bounds THEN final_inner_height + 2 ELSE final_inner_height
        Leave(k, e, st) ==
            Outcome(k, e, IF k = "Ok" THEN final_outer_width ELSE 0,
                    IF k = "Ok" THEN final_outer_height ELSE 0,
                    has_bounds, inner_width, inner_height, st)
    IN  IF tile_width.st = "panic" THEN Leave("Panic", "remainder by zero", <<>>)
        ELSE IF tile_width.st = "none" THEN Leave("Err", "NotDivisibleIntoTiles", <<>>)
        ELSE IF tile_height.st = "panic" THEN Leave("Panic", "remainder by zero", <<>>)
        ELSE IF tile_height.st = "none" THEN Leave("Err", "NotDivisibleIntoTiles", <<>>)
        ELSE IF ~PixmapNew(final_outer_width, final_outer_height)
            THEN Leave("Err", "InvalidOutputResolution", <<>>)
        ELSE IF ~has_bounds THEN Leave("Ok", "", <<"render">>)
        ELSE IF ~pink_bounds.some \/ ~yellow_bounds.some
            THEN Leave("Panic", "unwrap on None", <<"render">>)
        ELSE Leave("Ok", "", <<"render", "erase_bounds", "paint_pink", "paint_yellow">>)

\* render.rs 82-98.  The source size is given in half pixels (w2, h2): it is
\* fractional when odd.  `checks` tells whether the build checks integer
\* overflow (debug) or wraps (release).
RenderSized(q, mode, pink_bounds, yellow_bounds, w2, h2, checks) ==
    LET has_bounds == HasBounds(pink_bounds, yellow_bounds)
        outer_width == w2 \div 2
        outer_height == h2 \div 2
    IN  IF w2 % 2 # 0 \/ h2 % 2 # 0
            THEN Outcome("Err", "FractionalInputResolution", 0, 0, has_bounds, 0, 0, <<>>)
        ELSE IF has_bounds /\ (outer_width < 2 \/ outer_height < 2)
            THEN IF checks
                 THEN Outcome("Panic", "subtract with overflow", 0, 0, has_bounds, 0, 0, <<>>)
                 ELSE Outcome("Wrapped", "", 0, 0, has_bounds, 0, 0, <<>>)
        ELSE IF has_bounds
            THEN RenderTiled(q, mode, pink_bounds, yellow_bounds, has_bounds,
                             outer_width - 2, outer_height - 2)
        ELSE RenderTiled(q, mode, pink_bounds, yellow_bounds, has_bounds,
                         outer_width, outer_height)

InvalidScale == Outcome("Err", "InvalidScale", 0, 0, FALSE, 0, 0, <<>>)

\* the source size looked at before the scale
render_upscaled_size_first(q, mode, pink_bounds, yellow_bounds, w2, h2, checks) ==
    IF q <= 0 /\ w2 % 2 = 0 /\ h2 % 2 = 0 THEN InvalidScale
    ELSE RenderSized(q, mode, pink_bounds, yellow_bounds, w2, h2, checks)

\* a scale below 1.0 refused as invalid
render_upscaled_no_downscale(q, mode, pink_bounds, yellow_bounds, w2, h2, checks) ==
    IF q < 4 THEN InvalidScale
    ELSE RenderSized(q, mode, pink_bounds, yellow_bounds, w2, h2, checks)

\* render.rs 71-80: the scale is q quarters
render_upscaled(q, mode, pink_bounds, yellow_bounds, w2, h2, checks) ==
    IF q <= 0 THEN InvalidScale
    ELSE RenderSized(q, mode, pink_bounds, yellow_bounds, w2, h2, checks)

(***************************************************************************)
(* detect_reaper_bounds: the four strips.                                  *)
(***************************************************************************)
Range(a, b) == [k \in 1..(b - a) |-> a + k - 1]       \* a..b
Rev(s) == [k \in 1..Len(s) |-> s[Len(s) + 1 - k]]     \* .rev()
Once(v) == <<v>>                                       \* iter::once(v)

\* bounds.rs 210-217: x_iter of the call number s on a w x h bitmap
SideXs(s, w, h) ==
    CASE s = 1 -> Range(0, w)
      [] s = 2 -> Once(0)
      [] s = 3 -> Rev(Range(0, w))
      [] OTHER -> Once(w - 1)

\* bounds.rs 210-217: y_iter of the call number s
SideYs(s, w, h) ==
    CASE s = 1 -> Once(0)
      [] s = 2 -> Range(0, h)
      [] s = 3 -> Once(h - 1)
      [] OTHER -> Rev(Range(0, h))

\* bounds.rs 116-117: the n-th coordinate (from 0) of `for x { for y {..} }`
NthCoord(xs, ys, n) == <<xs[(n \div Len(ys)) + 1], ys[(n % Len(ys)) + 1]>>

StripLen(s, w, h) == Len(SideXs(s, w, h)) * Len(SideYs(s, w, h))

Coords(w, h) == (0..(w - 1)) \X (0..(h - 1))

NoPixmap == [c \in {} |-> Unread]

\* Option<(Bounds, Bounds)>: (yellow_bounds, pink_bounds)
NoDetection == [st |-> "none", yellow |-> Bounds(0, 0, 0, 0), pink |-> Bounds(0, 0, 0, 0)]
NotDetected == [st |-> "pending", yellow |-> Bounds(0, 0, 0, 0), pink |-> Bounds(0, 0, 0, 0)]

\* the second and third scans stored in each other's field
AssembleBoundsTopRightSwapped(left, top, right, bottom) ==
    [st |-> "some",
     yellow |-> Bounds(left.y, top.y, right.y, bottom.y),
     pink |-> Bounds(left.p, top.p, right.p, bottom.p)]

\* bounds.rs 219-232
AssembleBounds(left, top, right, bottom) ==
    [st |-> "some",
     yellow |-> Bounds(left.y, right.y, top.y, bottom.y),
     pink |-> Bounds(left.p, right.p, top.p, bottom.p)]

NoEntry == [button |-> FALSE, w |-> 0, h |-> 0]

(***************************************************************************)
(* detect_reaper_bounds as a function of a whole w x h bitmap.             *)
(***************************************************************************)
\* bounds.rs 116-148: the classes of the pixels of a strip, in reading order
StripClasses(bitmap, xs, ys) ==
    [k \in 1..(Len(xs) * Len(ys)) |-> Classify(bitmap[NthCoord(xs, ys, k - 1)])]

\* bounds.rs 106-203
parse_bound_side(bitmap, xs, ys) ==
    LET classes == StripClasses(bitmap, xs, ys)
    IN  IF \E k \in 1..Len(classes) : classes[k] = "Other" THEN None
        ELSE ScanWidths(classes)

\* bounds.rs 205-233
detect_reaper_bounds(bitmap, w, h) ==
    IF w = 0 \/ h = 0 THEN NoDetection
    ELSE LET left == parse_bound_side(bitmap, SideXs(1, w, h), SideYs(1, w, h))
             top == parse_bound_side(bitmap, SideXs(2, w, h), SideYs(2, w, h))
             right == parse_bound_side(bitmap, SideXs(3, w, h), SideYs(3, w, h))
             bottom == parse_bound_side(bitmap, SideXs(4, w, h), SideYs(4, w, h))
         IN  IF left = None \/ top = None \/ right = None \/ bottom = None
             THEN NoDetection
             ELSE AssembleBounds(left, top, right, bottom)

(***************************************************************************)
(* Drawing on a w x h bitmap.                                              *)
(***************************************************************************)
\* tiny_skia fill_rect with BlendMode::Source, no anti-aliasing and the
\* identity transform: the pixels of the rectangle that lie on the bitmap
\* take the colour.
fill_rect(pixmap, x, y, rw, rh, colour) ==
    [c \in DOMAIN pixmap |->
        IF x <= c[1] /\ c[1] < x + rw /\ y <= c[2] /\ c[2] < y + rh
        THEN colour ELSE pixmap[c]]

\* each line drawn as long as the width, without the pixel of the marker
paint_width_only(bounds, pixmap, w, h, colour) ==
    IF is_empty(bounds) THEN pixmap
    ELSE LET p1 == fill_rect(pixmap, 0, 0, bounds.l, 1, colour)
             p2 == fill_rect(p1, 0, 0, 1, bounds.t, colour)
             p3 == fill_rect(p2, w - bounds.r, h - 1, bounds.r, 1, colour)
         IN  fill_rect(p3, w - 1, h - bounds.b, 1, bounds.b, colour)

\* bounds.rs 39-83: Bounds::paint on a w x h pixmap
paint(bounds, pixmap, w, h, colour) ==
    IF is_empty(bounds) THEN pixmap
    ELSE LET p1 == fill_rect(pixmap, 0, 0, bounds.l + 1, 1, colour)
             p2 == fill_rect(p1, 0, 0, 1, bounds.t + 1, colour)
             p3 == fill_rect(p2, w - (bounds.r + 1), h - 1, bounds.r + 1, 1, colour)
         IN  fill_rect(p3, w - 1, h - (bounds.b + 1), 1, bounds.b + 1, colour)

\* bounds::erase_bounds (called at render.rs 178): the four 1-pixel edge
\* strips of the bitmap set fully transparent
erase_bounds(pixmap, w, h) ==
    [c \in DOMAIN pixmap |->
        IF c[1] = 0 \/ c[1] = w - 1 \/ c[2] = 0 \/ c[2] = h - 1
        THEN Transparent ELSE pixmap[c]]

(***************************************************************************)
(* main: the for loop over the entries of ./svg (main.rs 264-328).         *)
(***************************************************************************)
Init ==
    /\ pc = "loop"
    /\ remaining = MaxEntries
    /\ entry = NoEntry
    /\ px = NoPixmap
    /\ side = 1
    /\ strip = <<>>
    /\ result = <<>>
    /\ ret = Pending
    /\ sides = <<>>
    /\ detected = NotDetected
    /\ upscaled = NotCalled
    /\ outcome = "none"
    /\ req = <<>>
    /\ target = NoPixmap
    /\ out = <<>>

\* main.rs 266-271: the entry is not an .svg file
SkipNonSvg ==
    /\ pc = "loop" /\ remaining > 0
    /\ remaining' = remaining - 1
    /\ outcome' = "ignored"
    /\ entry' = NoEntry
    /\ detected' = NotDetected
    /\ upscaled' = NotCalled
    /\ UNCHANGED <<pc, px, side, strip, result, ret, sides, req, target, out>>

\* main.rs 276-277, 295-296: the file cannot be read or parsed (expect)
LoadFails ==
    /\ pc = "loop" /\ remaining > 0
    /\ remaining' = remaining - 1
    /\ pc' = "panic"
    /\ outcome' = "failed to read or parse svg"
    /\ entry' = NoEntry
    /\ detected' = NotDetected
    /\ upscaled' = NotCalled
    /\ UNCHANGED <<px, side, strip, result, ret, sides, req, target, out>>

\* main.rs 298, 57-66: render panics on a fractional size
RenderFractional ==
    /\ pc = "loop" /\ remaining > 0
    /\ remaining' = remaining - 1
    /\ pc' = "panic"
    /\ outcome' = "svg dimensions is fractional"
    /\ entry' = NoEntry
    /\ detected' = NotDetected
    /\ upscaled' = NotCalled
    /\ UNCHANGED <<px, side, strip, result, ret, sides, req, target, out>>

\* main.rs 298, 57-78: pixmap_1 is the w x h render of the tree
RenderBase ==
    /\ pc = "loop" /\ remaining > 0
    /\ \E w \in 1..MaxW, h \in 1..MaxH, button \in BOOLEAN :
          /\ entry' = [button |-> button, w |-> w, h |-> h]
          /\ px' = [c \in Coords(w, h) |-> Unread]
    /\ remaining' = remaining - 1
    /\ pc' = "detect"
    /\ side' = 1
    /\ strip' = <<>>
    /\ result' = <<>>
    /\ ret' = Pending
    /\ sides' = <<>>
    /\ detected' = NotDetected
    /\ upscaled' = NotCalled
    /\ outcome' = "none"
    /\ UNCHANGED <<req, target, out>>

\* bounds.rs 205-208
DetectStart ==
    /\ pc = "detect"
    /\ IF entry.w = 0 \/ entry.h = 0
       THEN pc' = "nobounds" /\ detected' = NoDetection
       ELSE pc' = "scan" /\ UNCHANGED detected
    /\ UNCHANGED <<remaining, entry, px, side, strip, result, ret, sides, upscaled,
                   outcome, req, target, out>>

\* The coordinate parse_bound_side reads next, and the values the pixel there
\* can have: the one already seen, or any pixel at a coordinate not yet read.
NextCoord ==
    NthCoord(SideXs(side, entry.w, entry.h), SideYs(side, entry.w, entry.h), Len(strip))

PixelAt(c) == IF px[c] = Unread THEN Pixels ELSE {px[c]}

Reading ==
    /\ pc = "scan"
    /\ Len(strip) < StripLen(side, entry.w, entry.h)

\* bounds.rs 116-143: one pixel read and classified
ClassifyPixel ==
    /\ Reading
    /\ IF NextCoord \notin DOMAIN px
       THEN /\ pc' = "panic"       \* pixel out of bounds (expect)
            /\ UNCHANGED <<px, strip, result>>
       ELSE \E pixel \in PixelAt(NextCoord) :
               /\ Classify(pixel) # "Other"
               /\ px' = [px EXCEPT ![NextCoord] = pixel]
               /\ strip' = Append(strip, pixel)
               /\ result' = Append(result, Classify(pixel))
               /\ UNCHANGED pc
    /\ UNCHANGED <<remaining, entry, side, ret, sides, detected, upscaled, outcome, req,
                   target, out>>

\* bounds.rs 145-146 and the `?` of 211-217: an invalid pixel
RejectPixel ==
    /\ Reading
    /\ NextCoord \in DOMAIN px
    /\ \E pixel \in PixelAt(NextCoord) :
          /\ Classify(pixel) = "Other"
          /\ px' = [px EXCEPT ![NextCoord] = pixel]
          /\ strip' = Append(strip, pixel)
    /\ ret' = None
    /\ detected' = NoDetection
    /\ pc' = "nobounds"
    /\ UNCHANGED <<remaining, entry, side, result, sides, upscaled, outcome, req, target, out>>

Scanned ==
    /\ pc = "scan"
    /\ Len(strip) = StripLen(side, entry.w, entry.h)

\* a failed edge reported as widths of zero, the detection going on
RejectStripAsZeros ==
    /\ Scanned
    /\ ScanWidths(result) = None
    /\ ret' = None
    /\ sides' = Append(sides, Some(0, 0))
    /\ pc' = "scanned"
    /\ UNCHANGED <<remaining, entry, px, side, strip, result, detected, upscaled, outcome,
                   req, target, out>>

\* bounds.rs 150-202 returning None, and the `?` of 211-217
RejectStrip ==
    /\ Scanned
    /\ ScanWidths(result) = None
    /\ ret' = None
    /\ detected' = NoDetection
    /\ pc' = "nobounds"
    /\ UNCHANGED <<remaining, entry, px, side, strip, result, sides, upscaled, outcome,
                   req, target, out>>

\* bounds.rs 150-202 returning Some
AcceptStrip ==
    /\ Scanned
    /\ ScanWidths(result) # None
    /\ ret' = ScanWidths(result)
    /\ sides' = Append(sides, ScanWidths(result))
    /\ pc' = "scanned"
    /\ UNCHANGED <<remaining, entry, px, side, strip, result, detected, upscaled, outcome,
                   req, target, out>>

\* bounds.rs 211-217: the next parse_bound_side call
NextSide ==
    /\ pc = "scanned" /\ side < 4
    /\ side' = side + 1
    /\ strip' = <<>>
    /\ result' = <<>>
    /\ ret' = Pending
    /\ pc' = "scan"
    /\ UNCHANGED <<remaining, entry, px, sides, detected, upscaled, outcome, req, target, out>>

\* bounds.rs 219-232
Assemble ==
    /\ pc = "scanned" /\ side = 4
    /\ detected' = AssembleBounds(sides[1], sides[2], sides[3], sides[4])
    /\ pc' = "upscale"
    /\ UNCHANGED <<remaining, entry, px, side, strip, result, ret, sides, upscaled,
                   outcome, req, target, out>>

\* main.rs 302-320: there are bounds, upscale; unwrap panics on Err
Upscale ==
    /\ pc = "upscale"
    /\ \E checks \in BOOLEAN :
          upscaled' = render_upscaled(SCALE,
                                      IF entry.button THEN VERTICAL_BUTTON ELSE Normal,
                                      SomeBounds(detected.pink), SomeBounds(detected.yellow),
                                      2 * entry.w, 2 * entry.h, checks)
    /\ pc' = IF upscaled'.kind = "Ok" THEN "save" ELSE "panic"
    /\ UNCHANGED <<remaining, entry, px, side, strip, result, ret, sides, detected,
                   outcome, req, target, out>>

\* main.rs 322-323
SavePng ==
    /\ pc = "save"
    /\ outcome' = "written"
    /\ pc' = "loop"
    /\ px' = NoPixmap /\ side' = 1 /\ strip' = <<>> /\ result' = <<>>
    /\ ret' = Pending /\ sides' = <<>>
    /\ UNCHANGED <<remaining, entry, detected, upscaled, req, target, out>>

\* main.rs 323: save_png fails (unwrap)
SaveFails ==
    /\ pc = "save"
    /\ pc' = "panic"
    /\ UNCHANGED <<remaining, entry, px, side, strip, result, ret, sides, detected,
                   upscaled, outcome, req, target, out>>

\* main.rs 324-327: the else branch of `if let Some(..)`
SkipOutput ==
    /\ pc = "nobounds"
    /\ outcome' = "skipped"
    /\ pc' = "loop"
    /\ px' = NoPixmap /\ side' = 1 /\ strip' = <<>> /\ result' = <<>>
    /\ ret' = Pending /\ sides' = <<>>
    /\ UNCHANGED <<remaining, entry, detected, upscaled, req, target, out>>

\* main.rs 330-337: the loop is over
Finish ==
    /\ pc = "loop" /\ remaining = 0
    /\ pc' = "done"
    /\ UNCHANGED <<remaining, entry, px, side, strip, result, ret, sides, detected,
                   upscaled, outcome, req, target, out>>

Next ==
    \/ SkipNonSvg \/ LoadFails \/ RenderFractional \/ RenderBase
    \/ DetectStart \/ ClassifyPixel \/ RejectPixel \/ RejectStrip \/ AcceptStrip
    \/ NextSide \/ Assemble \/ Upscale \/ SavePng \/ SaveFails \/ SkipOutput \/ Finish

Spec == Init /\ [][Next]_vars

(***************************************************************************)
(* render_upscaled called with arbitrary arguments.                        *)
(***************************************************************************)
Modes ==
    {Normal, VERTICAL_BUTTON, HORIZONTAL_BUTTON}
        \cup {VerticalTiles(n) : n \in 0..MaxTiles}
        \cup {HorizontalTiles(n) : n \in 0..MaxTiles}
        \cup {Grid(nx, ny) : nx \in 0..MaxTiles, ny \in 0..MaxTiles}

BoundsArgs == {NoBounds} \cup {SomeBounds(Bounds(a, a, a, a)) : a \in 0..MaxBound}

Requests ==
    [q : (-1)..MaxScaleQ, mode : Modes, pink : BoundsArgs, yellow : BoundsArgs,
     w2 : 1..MaxSrc2, h2 : 1..MaxSrc2, checks : BOOLEAN]

\* Two calls beyond the sizes of Requests: a 10x10 source with both Bounds at
\* scale 2.0, and a source 9 wide in three horizontal tiles at scale 1.5.
Bordered10 ==
    [q |-> 8, mode |-> Normal, pink |-> SomeBounds(Bounds(0, 0, 0, 0)),
     yellow |-> SomeBounds(Bounds(1, 1, 1, 1)), w2 |-> 20, h2 |-> 20, checks |-> TRUE]
Tiled9 ==
    [q |-> SCALE, mode |-> HorizontalTiles(BUTTON_TILES), pink |-> NoBounds,
     yellow |-> NoBounds, w2 |-> 18, h2 |-> 2, checks |-> TRUE]

InitRender ==
    /\ pc = "api"
    /\ req \in Requests \cup {Bordered10, Tiled9}
    /\ upscaled = NotCalled
    /\ remaining = 0
    /\ entry = NoEntry
    /\ px = NoPixmap
    /\ side = 1
    /\ strip = <<>>
    /\ result = <<>>
    /\ ret = Pending
    /\ sides = <<>>
    /\ detected = NotDetected
    /\ outcome = "none"
    /\ target = NoPixmap
    /\ out = <<>>

\* render.rs 71-185
CallRenderUpscaled ==
    /\ pc = "api"
    /\ upscaled' = render_upscaled(req.q, req.mode, req.pink, req.yellow, req.w2, req.h2,
                                   req.checks)
    /\ pc' = "returned"
    /\ UNCHANGED <<remaining, entry, px, side, strip, result, ret, sides, detected,
                   outcome, req, target, out>>

NextRender == CallRenderUpscaled

SpecRender == InitRender /\ [][NextRender]_vars

(***************************************************************************)
(* SpecScale: Bounds::scale called on an arbitrary Bounds with an          *)
(* arbitrary factor.  req holds the receiver and the factor.               *)
(***************************************************************************)
Fields == 0..MaxField
Factors == {Quarters(q) : q \in (-2)..MaxScaleQ} \cup {NaN}

InitScale ==
    /\ pc = "api"
    /\ req \in [self : {Bounds(l, r, t, b) : l \in Fields, r \in Fields, t \in Fields,
                                              b \in Fields},
                 amount : Factors]
    /\ out = Bounds(0, 0, 0, 0)
    /\ upscaled = NotCalled
    /\ remaining = 0
    /\ entry = NoEntry
    /\ px = NoPixmap
    /\ side = 1
    /\ strip = <<>>
    /\ result = <<>>
    /\ ret = Pending
    /\ sides = <<>>
    /\ detected = NotDetected
    /\ outcome = "none"
    /\ target = NoPixmap

\* bounds.rs 30-37: &self is not written to
CallScale ==
    /\ pc = "api"
    /\ out' = scale(req.self, req.amount)
    /\ pc' = "returned"
    /\ UNCHANGED <<remaining, entry, px, side, strip, result, ret, sides, detected,
                   upscaled, outcome, req, target>>

NextScale == CallScale

SpecScale == InitScale /\ [][NextScale]_vars

(***************************************************************************)
(* SpecParse: xml_text or non_color_text called on an arbitrary input,     *)
(* made of up to MaxChunks pieces.                                         *)
(***************************************************************************)
Chunks ==
    {<<"#">>, <<"0">>, <<"x">>, <<"z">>, <<"f", "f", "0">>, <<"rgb(">>,
     <<"2", ",", "5", ",", "0", ")">>, <<";fill-opacity:">>}

RECURSIVE Texts(_, _)
Texts(chunks, n) ==
    IF n = 0 THEN {<<>>}
    ELSE Texts(chunks, n - 1) \cup {t \o c : t \in Texts(chunks, n - 1), c \in chunks}

NotReturned == [fn |-> "", res |-> "", next |-> 0, vec |-> <<>>]

\* what fn returned: the elements of xml_text, the rest position of
\* non_color_text
Returned(fn, parsed) ==
    [fn |-> fn, res |-> parsed.res,
     next |-> IF fn = "xml_text" THEN 0 ELSE parsed.next,
     vec |-> IF fn = "xml_text" THEN parsed.vec ELSE <<>>]

InitParse ==
    /\ pc = "api"
    /\ req \in [input : Texts(Chunks, MaxChunks)]
    /\ out = NotReturned
    /\ upscaled = NotCalled
    /\ remaining = 0
    /\ entry = NoEntry
    /\ px = NoPixmap
    /\ side = 1
    /\ strip = <<>>
    /\ result = <<>>
    /\ ret = Pending
    /\ sides = <<>>
    /\ detected = NotDetected
    /\ outcome = "none"
    /\ target = NoPixmap

\* parser.rs 252-256
CallXmlText ==
    /\ pc = "api"
    /\ out' = Returned("xml_text", xml_text(req.input))
    /\ pc' = "returned"
    /\ UNCHANGED <<remaining, entry, px, side, strip, result, ret, sides, detected,
                   upscaled, outcome, req, target>>

\* parser.rs 240-242
CallNonColorText ==
    /\ pc = "api"
    /\ out' = Returned("non_color_text", non_color_text(req.input, 1))
    /\ pc' = "returned"
    /\ UNCHANGED <<remaining, entry, px, side, strip, result, ret, sides, detected,
                   upscaled, outcome, req, target>>

NextParse == CallXmlText \/ CallNonColorText

SpecParse == InitParse /\ [][NextParse]_vars

(***************************************************************************)
(* SpecMap: map_colors called on a document of up to MaxParts pieces with  *)
(* an arbitrary colour map and arbitrary options.                          *)
(***************************************************************************)
DocChunks ==
    {<<"z">>, <<"#", "f", "f", "0">>, <<"#", "0", "0", "0">>,
     <<"rgb(", "2", ",", "5", ",", "0", ")">>, <<"rgb(">>}

FromColors == {RGB(255, 255, 0), RGB(0, 0, 0), RGB(2, 5, 0)}
ToColors == {RGB(5, 5, 5), RGB(0, 0, 0)}
ColorMaps == UNION {[keys -> ToColors] : keys \in SUBSET FromColors}

InitMap ==
    /\ pc = "api"
    /\ req \in [xml : Texts(DocChunks, MaxParts), color_map : ColorMaps,
               opt : [all_input_colors : BOOLEAN, all_svg_colors : BOOLEAN]]
    /\ out = [res |-> "", why |-> "", pieces |-> <<>>]
    /\ upscaled = NotCalled
    /\ remaining = 0
    /\ entry = NoEntry
    /\ px = NoPixmap
    /\ side = 1
    /\ strip = <<>>
    /\ result = <<>>
    /\ ret = Pending
    /\ sides = <<>>
    /\ detected = NotDetected
    /\ outcome = "none"
    /\ target = NoPixmap

\* map_colors.rs 22-65
CallMapColors ==
    /\ pc = "api"
    /\ out' = map_colors(req.xml, req.color_map, req.opt)
    /\ pc' = "returned"
    /\ UNCHANGED <<remaining, entry, px, side, strip, result, ret, sides, detected,
                   upscaled, outcome, req, target>>

NextMap == CallMapColors

SpecMap == InitMap /\ [][NextMap]_vars

(***************************************************************************)
(* SpecRepaint: a bitmap is scanned as in Spec; the Bounds found are       *)
(* painted on a bitmap of the same size whose edge strips are transparent, *)
(* and that bitmap is scanned in turn.                                     *)
(***************************************************************************)
InitRepaint ==
    /\ pc = "detect"
    /\ \E w \in 1..MaxW, h \in 1..MaxH :
          /\ entry = [button |-> FALSE, w |-> w, h |-> h]
          /\ px = [c \in Coords(w, h) |-> Unread]
    /\ remaining = 0
    /\ side = 1
    /\ strip = <<>>
    /\ result = <<>>
    /\ ret = Pending
    /\ sides = <<>>
    /\ detected = NotDetected
    /\ upscaled = NotCalled
    /\ outcome = "none"
    /\ req = <<>>
    /\ target = NoPixmap
    /\ out = NotDetected

\* render.rs 176-181, on a bitmap of the size of the source and with the
\* Bounds as detected: edge strips cleared, pink painted, yellow painted
Repaint ==
    /\ pc = "upscale"
    /\ target' = paint(detected.yellow,
                       paint(detected.pink, erase_bounds(px, entry.w, entry.h),
                             entry.w, entry.h, Pink),
                       entry.w, entry.h, Yellow)
    /\ pc' = "repainted"
    /\ UNCHANGED <<remaining, entry, px, side, strip, result, ret, sides, detected,
                   upscaled, outcome, req, out>>

\* bounds.rs 205-233 on the repainted bitmap
Redetect ==
    /\ pc = "repainted"
    /\ out' = detect_reaper_bounds(target, entry.w, entry.h)
    /\ pc' = "redetected"
    /\ UNCHANGED <<remaining, entry, px, side, strip, result, ret, sides, detected,
                   upscaled, outcome, req, target>>

NextRepaint ==
    \/ DetectStart \/ ClassifyPixel \/ RejectPixel \/ RejectStrip \/ AcceptStrip
    \/ NextSide \/ Assemble \/ Repaint \/ Redetect

SpecRepaint == InitRepaint /\ [][NextRepaint]_vars

(***************************************************************************)
(* SpecDraw: render_upscaled followed statement by statement on the        *)
(* pixels of the bitmap it returns.  The source is req.w x req.h pixels;   *)
(* entry holds the size of the target bitmap, px what resvg::render drew,  *)
(* target the bitmap as it stands, detected the two scaled Bounds and out  *)
(* the drawing steps made so far, in order.                                *)
(***************************************************************************)
DrawScales == {q \in 1..MaxScaleQ : q % 2 = 0}

\* every Bounds with fields up to MaxBound; in a pair one of the two has
\* four equal fields or is None
DrawBounds ==
    {NoBounds} \cup {SomeBounds(Bounds(l, r, t, b)) :
                        l \in 0..MaxBound, r \in 0..MaxBound, t \in 0..MaxBound,
                        b \in 0..MaxBound}

DrawRequests ==
    {d \in [q : DrawScales, mode : {Normal}, pink : DrawBounds, yellow : DrawBounds,
            w : 1..MaxW, h : 1..MaxH] :
        d.pink \in BoundsArgs \/ d.yellow \in BoundsArgs}

\* what resvg::render leaves on a blank w x h bitmap: nothing, or one
\* colour on every pixel or on every other pixel
Artworks(w, h) ==
    {[c \in Coords(w, h) |-> Transparent]}
        \cup {[c \in Coords(w, h) |-> k] : k \in {Red, Yellow, Pink}}
        \cup {[c \in Coords(w, h) |-> IF (c[1] + c[2]) % 2 = 0 THEN Red ELSE Transparent]}

\* render.rs 121-126 for the call of req, has_bounds being set
FinalInnerWidth == CeilScaled((req.w - 2) \div Tiles(req.mode)[1], req.q) * Tiles(req.mode)[1]
FinalInnerHeight == CeilScaled((req.h - 2) \div Tiles(req.mode)[2], req.q) * Tiles(req.mode)[2]

\* render.rs 154-155: (final_inner_width / inner_width).max(final_inner_height
\* / inner_height).  0 / 0 is NaN and f32::max returns its other argument
\* when one is NaN.  Where a quotient is not exact in f32, its products with
\* the fields of the model are far from a whole number, so that the pixel
\* counts of scale_value are those of the exact fraction.
actual_scale(final_inner_width, inner_width, final_inner_height, inner_height) ==
    IF inner_width = 0
    THEN IF inner_height = 0 THEN NaN
         ELSE [num |-> final_inner_height, den |-> inner_height]
    ELSE IF inner_height = 0 THEN [num |-> final_inner_width, den |-> inner_width]
    ELSE IF final_inner_width * inner_height >= final_inner_height * inner_width
        THEN [num |-> final_inner_width, den |-> inner_width]
    ELSE [num |-> final_inner_height, den |-> inner_height]

InitDraw ==
    /\ pc = "api"
    /\ req \in DrawRequests
    /\ upscaled = NotCalled
    /\ remaining = 0
    /\ entry = NoEntry
    /\ px = NoPixmap
    /\ side = 1
    /\ strip = <<>>
    /\ result = <<>>
    /\ ret = Pending
    /\ sides = <<>>
    /\ detected = NotDetected
    /\ outcome = "none"
    /\ target = NoPixmap
    /\ out = <<>>

\* render.rs 71-149: the checks, Pixmap::new and resvg::render.  The build
\* checks integer overflow or not.
DrawRender ==
    /\ pc = "api"
    /\ \E checks \in BOOLEAN :
          LET o == render_upscaled(req.q, req.mode, req.pink, req.yellow, 2 * req.w,
                                   2 * req.h, checks)
              w == IF o.has_bounds THEN FinalInnerWidth + 2 ELSE o.w
              h == IF o.has_bounds THEN FinalInnerHeight + 2 ELSE o.h
          IN  IF o.steps = <<>>
              THEN /\ upscaled' = o
                   /\ pc' = "returned"
                   /\ UNCHANGED <<entry, px, target, out>>
              ELSE /\ \E art \in Artworks(w, h) : px' = art /\ target' = art
                   /\ entry' = [button |-> FALSE, w |-> w, h |-> h]
                   /\ out' = <<"render">>
                   /\ upscaled' = IF o.has_bounds THEN upscaled ELSE o
                   /\ pc' = IF o.has_bounds THEN "scale" ELSE "returned"
    /\ UNCHANGED <<remaining, side, strip, result, ret, sides, detected, outcome, req>>

\* render.rs 152-158: unwrap panics on a Bounds that is None
DrawScaleBounds ==
    /\ pc = "scale"
    /\ LET amount == actual_scale(FinalInnerWidth, req.w - 2, FinalInnerHeight, req.h - 2)
       IN  IF req.pink.some /\ req.yellow.some
           THEN /\ detected' = [st |-> "scaled", yellow |-> scale(req.yellow, amount),
                                pink |-> scale(req.pink, amount)]
                /\ pc' = "erase"
                /\ UNCHANGED upscaled
           ELSE /\ upscaled' = render_upscaled(req.q, req.mode, req.pink, req.yellow,
                                               2 * req.w, 2 * req.h, TRUE)
                /\ pc' = "returned"
                /\ UNCHANGED detected
    /\ UNCHANGED <<remaining, entry, px, side, strip, result, ret, sides, outcome, req,
                   target, out>>

\* render.rs 178
DrawErase ==
    /\ pc = "erase"
    /\ target' = erase_bounds(target, entry.w, entry.h)
    /\ out' = Append(out, "erase_bounds")
    /\ pc' = "pink"
    /\ UNCHANGED <<remaining, entry, px, side, strip, result, ret, sides, detected,
                   upscaled, outcome, req>>

\* render.rs 179
DrawPink ==
    /\ pc = "pink"
    /\ target' = paint(detected.pink, target, entry.w, entry.h, Pink)
    /\ out' = Append(out, "paint_pink")
    /\ pc' = "yellow"
    /\ UNCHANGED <<remaining, entry, px, side, strip, result, ret, sides, detected,
                   upscaled, outcome, req>>

\* yellow painted only where nothing is painted yet
DrawYellowBelow ==
    /\ pc = "yellow"
    /\ target' = [c \in DOMAIN target |->
                     IF target[c] = Transparent
                     THEN paint(detected.yellow, target, entry.w, entry.h, Yellow)[c]
                     ELSE target[c]]
    /\ out' = Append(out, "paint_yellow")
    /\ upscaled' = render_upscaled(req.q, req.mode, req.pink, req.yellow, 2 * req.w,
                                   2 * req.h, TRUE)
    /\ pc' = "returned"
    /\ UNCHANGED <<remaining, entry, px, side, strip, result, ret, sides, detected,
                   outcome, req>>

\* render.rs 180-184
DrawYellow ==
    /\ pc = "yellow"
    /\ target' = paint(detected.yellow, target, entry.w, entry.h, Yellow)
    /\ out' = Append(out, "paint_yellow")
    /\ upscaled' = render_upscaled(req.q, req.mode, req.pink, req.yellow, 2 * req.w,
                                   2 * req.h, TRUE)
    /\ pc' = "returned"
    /\ UNCHANGED <<remaining, entry, px, side, strip, result, ret, sides, detected,
                   outcome, req>>

NextDraw == DrawRender \/ DrawScaleBounds \/ DrawErase \/ DrawPink \/ DrawYellow

SpecDraw == InitDraw /\ [][NextDraw]_vars

(***************************************************************************)
(* SpecFit: the statements of SpecDraw, for calls as main makes them: both *)
(* Bounds are as detect_reaper_bounds returns them for a w x h source, no  *)
(* field above the strip length - 2 (bounds.rs 200-202), and the source is *)
(* divided into tiles.                                                     *)
(***************************************************************************)
FitModes ==
    {Normal, Grid(MaxTiles, MaxTiles)}
        \cup {HorizontalTiles(n) : n \in 2..MaxTiles}
        \cup {VerticalTiles(n) : n \in 2..MaxTiles}

DetectedBounds(w, h) ==
    {SomeBounds(Bounds(l, r, t, b)) :
        l \in 0..(w - 2), r \in 0..(w - 2), t \in 0..(h - 2), b \in 0..(h - 2)}

\* in a pair one of the two Bounds is extreme: no marker line beyond the
\* corner pixel, or the longest lines there are
FitRequests ==
    LET ExtremeBounds(w, h) ==
            {SomeBounds(Bounds(0, 0, 0, 0)),
             SomeBounds(Bounds(w - 2, w - 2, h - 2, h - 2))}
    IN  UNION {[q : DrawScales, mode : FitModes, pink : DetectedBounds(w, h),
                yellow : ExtremeBounds(w, h), w : {w}, h : {h}]
                 \cup [q : DrawScales, mode : FitModes, pink : ExtremeBounds(w, h),
                       yellow : DetectedBounds(w, h), w : {w}, h : {h}] :
               w \in 2..MaxW, h \in 2..MaxH}

InitFit ==
    /\ pc = "api"
    /\ req \in FitRequests
    /\ upscaled = NotCalled
    /\ remaining = 0
    /\ entry = NoEntry
    /\ px = NoPixmap
    /\ side = 1
    /\ strip = <<>>
    /\ result = <<>>
    /\ ret = Pending
    /\ sides = <<>>
    /\ detected = NotDetected
    /\ outcome = "none"
    /\ target = NoPixmap
    /\ out = <<>>

SpecFit == InitFit /\ [][NextDraw]_vars

(***************************************************************************)
(* Properties of the edge scan (Spec).  A parse_bound_side call has        *)
(* returned when ret is not Pending; strip then holds the pixels it read.  *)
(***************************************************************************)
IsReserved(pixel) == pixel = Yellow \/ pixel = Pink
IsClear(pixel) == pixel[4] = 0
IsOtherPixel(pixel) == ~IsClear(pixel) /\ pixel # Yellow /\ pixel # Pink
CountOf(s, pixel) == Cardinality({k \in 1..Len(s) : s[k] = pixel})
Abut(s, first, second) == \E k \in 1..(Len(s) - 1) : s[k] = first /\ s[k + 1] = second

\* a yellow pixels, then b pink pixels, then transparent ones: n in all
RunStrip(a, b, n) ==
    [k \in 1..n |-> IF k <= a THEN Yellow ELSE IF k <= a + b THEN Pink ELSE Transparent]

\* C1 (as stated): a strip in which Yellow is immediately followed by Pink,
\* or Pink by Yellow, is rejected.
C1_Original ==
    (ret.st # "pending" /\ (Abut(strip, Yellow, Pink) \/ Abut(strip, Pink, Yellow)))
        => ret.st = "none"

\* C1 (amended): only Pink immediately followed by Yellow is rejected; no
\* accepted strip contains it.  A yellow run immediately followed by a pink
\* run and then only transparent pixels (3 pixels or more) is accepted.
C1_OnlyPinkThenYellowRejected ==
    /\ ret.st = "some" => ~Abut(strip, Pink, Yellow)
    /\ (/\ ret.st # "pending"
        /\ Len(strip) >= 3
        /\ \E a \in 1..Len(strip), b \in 1..Len(strip) :
              a + b <= Len(strip) /\ strip = RunStrip(a, b, Len(strip)))
       => ret.st = "some"

C1_Witness == ret.st = "some" /\ Abut(strip, Yellow, Pink)

\* C7: an accepted strip is a non-empty prefix of reserved-colour pixels
\* followed only by transparent pixels (so a strip that starts transparent,
\* or has a reserved colour after a transparent pixel, is not accepted).
C7_AcceptedIsMarkerThenTransparent ==
    ret.st = "some" =>
        \E k \in 1..Len(strip) :
            /\ \A j \in 1..k : IsReserved(strip[j])
            /\ \A j \in (k + 1)..Len(strip) : IsClear(strip[j])

C7_Witness ==
    /\ ret.st = "some"
    /\ Len(strip) = 4
    /\ IsReserved(strip[2])
    /\ IsClear(strip[3])

\* C8 (as stated): the width of a colour present in an accepted strip is the
\* number of its pixels minus one; an absent colour has width 0.
C8_Original ==
    ret.st = "some" =>
        /\ ret.y = IF CountOf(strip, Yellow) = 0 THEN 0 ELSE CountOf(strip, Yellow) - 1
        /\ ret.p = IF CountOf(strip, Pink) = 0 THEN 0 ELSE CountOf(strip, Pink) - 1

\* C8 (amended): the width of a colour present in an accepted strip is the
\* 0-based position of its last pixel, at most len - 2: the yellow run length
\* minus one for yellow, the yellow plus the pink run length minus one for
\* pink; an absent colour has width 0.
C8_WidthIsLastIndexCapped ==
    ret.st = "some" =>
        LET ny == CountOf(strip, Yellow)
            np == CountOf(strip, Pink)
        IN  /\ ret.y = IF ny = 0 THEN 0 ELSE Min(ny - 1, Len(strip) - 2)
            /\ ret.p = IF np = 0 THEN 0 ELSE Min(ny + np - 1, Len(strip) - 2)

C8_Witness ==
    /\ strip = <<Yellow, Yellow, Pink, Transparent>>
    /\ ret = Some(1, 2)

\* C9: a strip with a pixel that is neither fully transparent, nor opaque
\* yellow, nor opaque pink is never accepted, wherever the pixel is, and
\* detect_reaper_bounds returns None for a bitmap with such a pixel on an
\* edge: it returns Some only after reading every edge pixel and finding
\* none of that kind.
C9_OtherPixelNoBorder ==
    /\ (\E k \in 1..Len(strip) : IsOtherPixel(strip[k])) =>
            ret.st = "none" /\ detected.st = "none"
    /\ (\E c \in DOMAIN px : px[c] # Unread /\ IsOtherPixel(px[c])) => detected.st = "none"
    /\ (detected.st = "some" /\ pc = "upscale") =>
            \A c \in DOMAIN px :
                (c[1] \in {0, entry.w - 1} \/ c[2] \in {0, entry.h - 1}) =>
                    px[c] # Unread /\ ~IsOtherPixel(px[c])

C9_Witness ==
    /\ pc = "nobounds"
    /\ side = 3
    /\ Len(strip) = 3
    /\ IsReserved(strip[1])
    /\ IsOtherPixel(strip[3])

\* C10: an accepted strip has 3 pixels or more and both widths are at most
\* len - 2; every field of the Bounds that detect_reaper_bounds returns is at
\* most the length of its strip minus 2.
C10_WidthsAtMostLenMinus2 ==
    /\ ret.st = "some" =>
          Len(strip) >= 3 /\ ret.y <= Len(strip) - 2 /\ ret.p <= Len(strip) - 2
    /\ detected.st = "some" =>
          \A bounds \in {detected.yellow, detected.pink} :
              /\ bounds.l <= entry.w - 2 /\ bounds.r <= entry.w - 2
              /\ bounds.t <= entry.h - 2 /\ bounds.b <= entry.h - 2

C10_Witness ==
    /\ pc = "upscale"
    /\ detected.st = "some"
    /\ entry.w = 4
    /\ px[<<3, 0>>] = Yellow
    /\ detected.yellow.l = 2

(***************************************************************************)
(* Properties of the batch driver (Spec).                                  *)
(***************************************************************************)
\* C6: an image for which detect_reaper_bounds returned None is still
\* rendered, without Bounds, and written.
C6_Original ==
    (pc = "loop" /\ detected.st = "none") =>
        /\ outcome = "written"
        /\ upscaled.kind = "Ok"
        /\ ~upscaled.has_bounds

(***************************************************************************)
(* Properties of render_upscaled (SpecRender).                             *)
(***************************************************************************)
Whole == req.w2 % 2 = 0 /\ req.h2 % 2 = 0
OuterW == req.w2 \div 2
OuterH == req.h2 \div 2
Neither == ~req.pink.some /\ ~req.yellow.some
Both == req.pink.some /\ req.yellow.some
TilesX == IF req.mode.kind \in {"HorizontalTiles", "Grid"} THEN req.mode.a ELSE 1
TilesY ==
    IF req.mode.kind = "VerticalTiles" THEN req.mode.a
    ELSE IF req.mode.kind = "Grid" THEN req.mode.b
    ELSE 1
Frame == IF upscaled.has_bounds THEN 2 ELSE 0
Divisible ==
    /\ TilesX > 0 /\ TilesY > 0
    /\ (OuterW - (IF Neither THEN 0 ELSE 2)) % TilesX = 0
    /\ (OuterH - (IF Neither THEN 0 ELSE 2)) % TilesY = 0

\* final is n tiles, each the least whole number of pixels that is at
\* least (inner / n) * q / 4
IsCeilPerTile(final, inner, n, q) ==
    /\ n > 0 /\ final % n = 0 /\ inner % n = 0
    /\ 4 * (final \div n) >= (inner \div n) * q
    /\ 4 * ((final \div n) - 1) < (inner \div n) * q

\* C2 (as stated): a call with 0 < scale < 1 never returns Ok.
C2_Original == (pc = "returned" /\ 0 < req.q /\ req.q < 4) => upscaled.kind # "Ok"

\* C2 (amended): a scale with 0 < scale < 1 is accepted, not refused as
\* InvalidScale and not clamped to 1: with no Bounds, a whole source size and
\* tile counts that divide it the call returns Ok, and every bitmap returned
\* has tiles of ceil(tile * scale) pixels, so it is no larger than the source.
C2_DownscaleAccepted ==
    (pc = "returned" /\ 0 < req.q /\ req.q < 4) =>
        /\ upscaled.err # "InvalidScale"
        /\ (Neither /\ Whole /\ Divisible) => upscaled.kind = "Ok"
        /\ upscaled.kind = "Ok" =>
              /\ IsCeilPerTile(upscaled.w - Frame, upscaled.inner_w, TilesX, req.q)
              /\ IsCeilPerTile(upscaled.h - Frame, upscaled.inner_h, TilesY, req.q)
              /\ upscaled.w <= OuterW /\ upscaled.h <= OuterH

C2_Witness ==
    /\ pc = "returned"
    /\ req.q = 2
    /\ upscaled.kind = "Ok"
    /\ OuterW = 4 /\ upscaled.w = 2

BorderSteps == <<"render", "erase_bounds", "paint_pink", "paint_yellow">>

\* C3 (as stated): a call that returns a bitmap is border-aware (inner =
\* outer - 2, border redrawn) exactly when both Bounds are supplied and one of
\* them is non-empty; otherwise inner = outer and no border is drawn.
C3_Original ==
    (pc = "returned" /\ upscaled.kind = "Ok") =>
        IF Both /\ (~is_empty(req.pink) \/ ~is_empty(req.yellow))
        THEN /\ upscaled.inner_w = OuterW - 2 /\ upscaled.inner_h = OuterH - 2
             /\ upscaled.steps = BorderSteps
        ELSE /\ upscaled.inner_w = OuterW /\ upscaled.inner_h = OuterH
             /\ upscaled.steps = <<"render">>

\* C3 (amended): the border-aware sizes (inner = outer - 2) are used exactly
\* when at least one Bounds is supplied, empty or not.  A bitmap is returned
\* with the frame erased and the border redrawn exactly when both are
\* supplied; with one supplied no bitmap is returned; with none supplied
\* inner = outer and no border is drawn.
C3_BorderAwareWhenSupplied ==
    (pc = "returned" /\ req.q > 0 /\ Whole) =>
        /\ upscaled.has_bounds = ~Neither
        /\ upscaled.kind \in {"Ok", "Err"} =>
              /\ upscaled.inner_w = OuterW - (IF Neither THEN 0 ELSE 2)
              /\ upscaled.inner_h = OuterH - (IF Neither THEN 0 ELSE 2)
        /\ upscaled.kind = "Ok" =>
              /\ Both \/ Neither
              /\ IsCeilPerTile(upscaled.w - (IF Both THEN 2 ELSE 0), upscaled.inner_w,
                               TilesX, req.q)
              /\ IsCeilPerTile(upscaled.h - (IF Both THEN 2 ELSE 0), upscaled.inner_h,
                               TilesY, req.q)
              /\ upscaled.steps = IF Both THEN BorderSteps ELSE <<"render">>
        /\ (Both /\ OuterW >= 2 /\ OuterH >= 2 /\ Divisible) => upscaled.kind = "Ok"

C3_Witness ==
    /\ pc = "returned"
    /\ upscaled.kind = "Ok"
    /\ Both /\ is_empty(req.pink) /\ is_empty(req.yellow)
    /\ upscaled.inner_w = OuterW - 2
    /\ upscaled.steps = BorderSteps

\* C4: no call on a whole-number source size panics; an error is one of the
\* four UpscaleErrors and leaves nothing drawn.
C4_Original ==
    (pc = "returned" /\ Whole) =>
        /\ upscaled.kind # "Panic"
        /\ upscaled.kind = "Err" =>
              /\ upscaled.err \in {"InvalidScale", "FractionalInputResolution",
                                   "NotDivisibleIntoTiles", "InvalidOutputResolution"}
              /\ upscaled.steps = <<>>

\* C5 (as stated): with scale 1.0 every tile layout, also one whose counts do
\* not divide the source, gives Ok with the size of the source.
C5_Original ==
    (pc = "returned" /\ req.q = 4 /\ Whole /\ Neither /\ TilesX > 0 /\ TilesY > 0) =>
        upscaled.kind = "Ok" /\ upscaled.w = OuterW /\ upscaled.h = OuterH

\* C5 (amended): with scale 1.0 the tiling check still applies.  With no
\* Bounds, or both on a source of 2 pixels or more per axis, tile counts that
\* divide the inner size give Ok and tile counts that do not give
\* NotDivisibleIntoTiles; every bitmap returned has the size of the source.
C5_UnitScaleKeepsSize ==
    (pc = "returned" /\ req.q = 4 /\ Whole) =>
        /\ upscaled.kind = "Ok" => upscaled.w = OuterW /\ upscaled.h = OuterH
        /\ ((Neither \/ (Both /\ OuterW >= 2 /\ OuterH >= 2)) /\ TilesX > 0 /\ TilesY > 0) =>
              IF Divisible
              THEN upscaled.kind = "Ok"
              ELSE upscaled.kind = "Err" /\ upscaled.err = "NotDivisibleIntoTiles"

C5_Witness ==
    /\ pc = "returned"
    /\ req.q = 4 /\ Whole /\ Neither
    /\ OuterW = 5 /\ TilesX = 2 /\ TilesY = 1
    /\ upscaled.err = "NotDivisibleIntoTiles"

(***************************************************************************)
(* Properties of detect_reaper_bounds (Spec).  The call has returned None  *)
(* at pc = "nobounds" and Some at pc = "upscale".                          *)
(***************************************************************************)
\* C11: detect_reaper_bounds returns None as soon as one of the four edge
\* scans returns None (or the bitmap has a zero width or height, in which
\* case no pixel is read), and Some exactly when all four scans returned
\* Some; a failed edge is never carried on as widths of zero.
C11_NoneUnlessAllFourScansSucceed ==
    /\ ret.st = "none" => pc = "nobounds" /\ detected.st = "none"
    /\ pc = "nobounds" =>
          /\ detected.st = "none"
          /\ Len(sides) < 4
          /\ ret.st = "none" \/ entry.w = 0 \/ entry.h = 0
          /\ (entry.w = 0 \/ entry.h = 0) =>
                strip = <<>> /\ \A c \in DOMAIN px : px[c] = Unread
    /\ pc = "upscale" =>
          /\ detected.st = "some"
          /\ Len(sides) = 4
          /\ \A k \in 1..4 : sides[k].st = "some"
          /\ ret.st = "some"
    /\ (Len(sides) = 4 /\ pc # "scanned") => detected.st = "some"

C11_Witness ==
    /\ pc = "nobounds"
    /\ detected.st = "none"
    /\ side = 3
    /\ Len(sides) = 2
    /\ sides[1].y > 0
    /\ Len(strip) = entry.w
    /\ ret.st = "none"

\* The classes of row y by increasing column, and of column x by
\* increasing row, of the bitmap as the scan has seen it.
RowClasses(y) == [k \in 1..entry.w |-> Classify(px[<<k - 1, y>>])]
ColClasses(x) == [k \in 1..entry.h |-> Classify(px[<<x, k - 1>>])]

\* The coordinate of the k-th pixel (from 1) of the strip of call s.
StripCoord(s, k) ==
    CASE s = 1 -> <<k - 1, 0>>
      [] s = 2 -> <<0, k - 1>>
      [] s = 3 -> <<entry.w - k, entry.h - 1>>
      [] OTHER -> <<entry.w - 1, entry.h - k>>

\* C12: row 0 by increasing column gives `left`, column 0 by increasing row
\* gives `top`, the bottom row by decreasing column gives `right`, the
\* rightmost column by decreasing row gives `bottom`; the first Bounds of the
\* pair holds the yellow widths, the second the pink widths; every coordinate
\* read lies inside the bitmap.
C12_StripsMapToFields ==
    /\ Reading => NextCoord \in DOMAIN px
    /\ \A k \in 1..Len(strip) :
          StripCoord(side, k) \in DOMAIN px /\ strip[k] = px[StripCoord(side, k)]
    /\ ret.st = "some" =>
          Len(strip) = IF side \in {1, 3} THEN entry.w ELSE entry.h
    /\ pc = "upscale" =>
          LET left == ScanWidths(RowClasses(0))
              top == ScanWidths(ColClasses(0))
              right == ScanWidths(Rev(RowClasses(entry.h - 1)))
              bottom == ScanWidths(Rev(ColClasses(entry.w - 1)))
          IN  /\ detected.yellow = Bounds(left.y, right.y, top.y, bottom.y)
              /\ detected.pink = Bounds(left.p, right.p, top.p, bottom.p)

C12_Witness ==
    /\ pc = "upscale"
    /\ entry.w = 4 /\ entry.h = 3
    /\ detected.yellow = Bounds(2, 0, 1, 0)
    /\ detected.pink = Bounds(0, 1, 0, 1)
    /\ px[<<3, 2>>] = Pink /\ px[<<2, 2>>] = Pink /\ px[<<3, 1>>] = Pink

(***************************************************************************)
(* Properties of painting the Bounds back (SpecRepaint).                   *)
(***************************************************************************)
\* C13 (as stated): painting the detected pink and then the detected yellow
\* Bounds on a bitmap with transparent edge strips and detecting again
\* returns exactly the pair detected first.
C13_Original == pc = "redetected" => out = detected

\* The pink Bounds as read back: a pink width equal to a non-zero yellow
\* width is hidden by the yellow line.
PinkReadBack(yellow, pink) ==
    LET Seen(y, p) == IF p > 0 /\ p = y THEN 0 ELSE p
    IN  Bounds(Seen(yellow.l, pink.l), Seen(yellow.r, pink.r),
               Seen(yellow.t, pink.t), Seen(yellow.b, pink.b))

\* C13 (amended): when both detected Bounds are empty nothing is painted and
\* the second detection returns None; otherwise it returns the yellow Bounds
\* unchanged and the pink Bounds with every width that equals a non-zero
\* yellow width read as 0, so it returns the detected pair exactly when one
\* of the two is non-empty and no pink width equals a non-zero yellow width.
C13_RepaintReadsBack ==
    pc = "redetected" =>
        IF is_empty(detected.yellow) /\ is_empty(detected.pink)
        THEN out.st = "none"
        ELSE /\ out.st = "some"
             /\ out.yellow = detected.yellow
             /\ out.pink = PinkReadBack(detected.yellow, detected.pink)

C13_Witness ==
    /\ pc = "redetected"
    /\ entry.w = 4
    /\ detected.yellow.l = 1 /\ detected.pink.l = 2 /\ detected.pink.b = 1
    /\ detected.yellow.r = 0 /\ detected.pink.r = 0
    /\ out = detected

(***************************************************************************)
(* Further properties of render_upscaled (SpecRender).                     *)
(***************************************************************************)
\* ceil(n * q / 4): the least whole number that is at least n * q / 4
CeilOfProduct(n, q) == CHOOSE m \in 0..(n * q) : 4 * m >= n * q /\ 4 * (m - 1) < n * q

IsMultiple(a, b) == \E k \in 0..a : k * b = a

IsScaledField(scaled, value, amount) ==
    IF value = 0 THEN scaled = 0
    ELSE /\ scaled >= 1
         /\ scaled > 1 =>
               /\ amount.den > 0
               /\ amount.den * scaled >= value * amount.num
               /\ amount.den * (scaled - 1) < value * amount.num
         /\ (scaled = 1 /\ amount.den > 0) => value * amount.num <= amount.den

\* C16: in every Bounds::scale call each field of the Bounds returned
\* depends on the same field of the receiver alone: it is 0 if and only if
\* that field is 0, and otherwise max(ceil(value * factor), 1) >= 1; the
\* receiver is the same after the call.
C16_ScaleKeepsZeroAndNonZero ==
    [][pc' = "returned" =>
          /\ IsScaledField(out'.l, req.self.l, req.amount)
          /\ IsScaledField(out'.r, req.self.r, req.amount)
          /\ IsScaledField(out'.t, req.self.t, req.amount)
          /\ IsScaledField(out'.b, req.self.b, req.amount)
          /\ \A f \in {"l", "r", "t", "b"} : out'[f] = 0 <=> req.self[f] = 0
          /\ req' = req]_vars

C16_Witness ==
    /\ pc = "returned"
    /\ req.self = Bounds(0, 1, 2, 3)
    /\ req.amount = Quarters(-1)
    /\ out = Bounds(0, 1, 1, 1)

(***************************************************************************)
(* Properties of the argument checks of render_upscaled (SpecRender).     *)
(***************************************************************************)
\* C17: every call with scale <= 0 returns Err(InvalidScale) with nothing
\* drawn, whatever the tile layout and the Bounds supplied, also when the
\* source size is fractional, the tile counts do not divide the size or are
\* 0, or only one Bounds is supplied.
C17_InvalidScaleComesFirst ==
    (pc = "returned" /\ req.q <= 0) =>
        /\ upscaled.kind = "Err"
        /\ upscaled.err = "InvalidScale"
        /\ upscaled.steps = <<>>

C17_Witness ==
    /\ pc = "returned"
    /\ req.q = -1
    /\ req.w2 = 3 /\ req.h2 = 10
    /\ req.mode = VerticalTiles(2)
    /\ req.pink.some /\ ~req.yellow.some
    /\ upscaled.err = "InvalidScale"

(***************************************************************************)
(* Properties of map_colors (SpecMap).                                     *)
(***************************************************************************)
\* the colour is written somewhere in the document as a colour literal
Occurs(c, xml) == \E i \in 1..Len(xml) : color(xml, i).res = "Ok" /\ color(xml, i).color = c

\* C18: with all_input_colors set (all_svg_colors not set, the document one
\* that parses) map_colors returns an error if and only if a `from` colour
\* of the map does not occur in the document as a colour literal; it
\* succeeds when all of them occur, a reserved marker colour included.
C18_Original ==
    (/\ pc = "returned"
     /\ req.opt.all_input_colors /\ ~req.opt.all_svg_colors
     /\ xml_text(req.xml).res = "Ok") =>
        (out.res = "Err" <=> \E c \in DOMAIN req.color_map : ~Occurs(c, req.xml))

(***************************************************************************)
(* Properties of the parser (SpecParse).  The colour literals are stated   *)
(* here by their shape; e is the position after the literal.               *)
(***************************************************************************)
AllIn(input, i, e, set) == \A k \in i..(e - 1) : input[k] \in set

\* optional spaces, a number of at most 255, optional spaces: input[i .. e-1]
IsNumber(input, i, e) ==
    \E a \in i..(e - 1), b \in (i + 1)..e :
        /\ a < b
        /\ AllIn(input, i, a, {" "}) /\ AllIn(input, a, b, Digits) /\ AllIn(input, b, e, {" "})
        /\ DecimalValue(input, a, b, 0) <= 255

\* rgb(r,g,b)
IsNumericLiteral(input, i, e) ==
    /\ At(input, i) = "rgb(" /\ e <= Len(input) + 1 /\ At(input, e - 1) = ")"
    /\ \E c1 \in (i + 2)..(e - 2), c2 \in (i + 2)..(e - 2) :
          /\ c1 < c2 /\ input[c1] = "," /\ input[c2] = ","
          /\ IsNumber(input, i + 1, c1) /\ IsNumber(input, c1 + 1, c2)
          /\ IsNumber(input, c2 + 1, e - 1)

\* #rgb, 0xrgb, #rrggbb, 0xrrggbb, #rrggbbaa, 0xrrggbbaa, not followed by a
\* further hex digit
IsHexLiteral(input, i, e) ==
    \E p \in {1, 2}, n \in {3, 6, 8} :
        /\ e = i + p + n /\ e <= Len(input) + 1
        /\ IF p = 1 THEN input[i] = "#" ELSE input[i] = "0" /\ input[i + 1] = "x"
        /\ AllIn(input, i + p, e, Hex)
        /\ At(input, e) \notin Hex

IsLiteral(input, i, e) == IsHexLiteral(input, i, e) \/ IsNumericLiteral(input, i, e)

LiteralStartsAt(input, i) == \E e \in (i + 1)..(Len(input) + 1) : IsLiteral(input, i, e)

\* a literal, with the ";fill-opacity:" and digits that follow it if any
IsColorSpan(input, i, e) ==
    \E m \in (i + 1)..e :
        /\ IsLiteral(input, i, m)
        /\ IF At(input, m) = ";fill-opacity:" /\ At(input, m + 1) = "0"
           THEN e > m + 1 /\ AllIn(input, m + 1, e, {"0"}) /\ At(input, e) # "0"
           ELSE e = m

\* vec splits the input, in order, into colour literals and maximal texts in
\* which no colour literal starts
WellSplit(input, vec) ==
    /\ Len(vec) = 0 <=> Len(input) = 0
    /\ Len(vec) > 0 => vec[1].from = 1 /\ vec[Len(vec)].next = Len(input) + 1
    /\ \A k \in 1..(Len(vec) - 1) :
          /\ vec[k].next = vec[k + 1].from
          /\ ~(vec[k].kind = "Text" /\ vec[k + 1].kind = "Text")
    /\ \A k \in 1..Len(vec) :
          /\ vec[k].from < vec[k].next
          /\ IF vec[k].kind = "Text"
             THEN /\ vec[k].text = SubSeq(input, vec[k].from, vec[k].next - 1)
                  /\ \A p \in vec[k].from..(vec[k].next - 1) : ~LiteralStartsAt(input, p)
             ELSE IsColorSpan(input, vec[k].from, vec[k].next)

\* "rgb(" somewhere in the input is not the start of an rgb(r,g,b) literal
HasBrokenRgb(input) ==
    \E i \in 1..Len(input) : input[i] = "rgb(" /\ ~LiteralStartsAt(input, i)

\* C19 (as stated): xml_text splits any input, in order, into Color elements
\* for the colour literals and non-empty verbatim Text elements in which no
\* colour literal starts, no two Text elements adjacent; non_color_text
\* fails on an input that begins with a colour literal.
C19_Original ==
    /\ (pc = "returned" /\ out.fn = "xml_text") =>
          out.res = "Ok" /\ WellSplit(req.input, out.vec)
    /\ (pc = "returned" /\ out.fn = "non_color_text" /\ LiteralStartsAt(req.input, 1)) =>
          out.res = "Error"

\* C19 (amended): xml_text returns an error for an input in which "rgb(" is
\* not followed by three numbers of at most 255, commas between them, and
\* ")"; every other input is split as stated.  non_color_text fails on an
\* input that begins with a colour literal and otherwise, on a non-empty
\* input of that kind, returns the text up to the first colour literal.
C19_SplitUnlessBrokenRgb ==
    /\ (pc = "returned" /\ out.fn = "xml_text") =>
          IF HasBrokenRgb(req.input)
          THEN out.res = "Err"
          ELSE out.res = "Ok" /\ WellSplit(req.input, out.vec)
    /\ (pc = "returned" /\ out.fn = "non_color_text") =>
          /\ LiteralStartsAt(req.input, 1) => out.res = "Error"
          /\ out.res = "Ok" =>
                /\ out.next > 1
                /\ \A p \in 1..(out.next - 1) : ~LiteralStartsAt(req.input, p)
                /\ out.next <= Len(req.input) => LiteralStartsAt(req.input, out.next)

C19_Witness ==
    /\ pc = "returned"
    /\ out.fn = "xml_text"
    /\ req.input = <<"z", "rgb(", "2", ",", "5", ",", "0", ")", "z">>
    /\ out.res = "Ok"
    /\ Len(out.vec) = 3
    /\ out.vec[2] = Color(2, 9, RGB(2, 5, 0))

(***************************************************************************)
(* Properties of the drawing steps (SpecDraw).                             *)
(***************************************************************************)
OnEdge(c) ==
    c[1] = 0 \/ c[1] = entry.w - 1 \/ c[2] = 0 \/ c[2] = entry.h - 1

\* c lies on one of the four marker lines of `bounds`, which paint draws as
\* field + 1 pixels from the top left and from the bottom right corner
OnMarker(bounds, c) ==
    /\ ~is_empty(bounds)
    /\ \/ c[2] = 0 /\ c[1] <= bounds.l
       \/ c[1] = 0 /\ c[2] <= bounds.t
       \/ c[2] = entry.h - 1 /\ c[1] >= entry.w - 1 - bounds.r
       \/ c[1] = entry.w - 1 /\ c[2] >= entry.h - 1 - bounds.b

\* the edge of the bitmap returned is redrawn: yellow on a yellow marker
\* line, else pink on a pink one, else transparent, whatever was rendered
\* there; the pixels off the edge are as rendered
EdgeRedrawn ==
    /\ out = <<"render", "erase_bounds", "paint_pink", "paint_yellow">>
    /\ \A c \in DOMAIN target :
          target[c] = IF ~OnEdge(c) THEN px[c]
                      ELSE IF OnMarker(detected.yellow, c) THEN Yellow
                      ELSE IF OnMarker(detected.pink, c) THEN Pink
                      ELSE Transparent

\* C20 (as stated): a border-aware call, one with both Bounds supplied and
\* one of them non-empty, renders, erases the edge strips, paints pink, then
\* yellow; any other call that returns a bitmap only renders.
C20_Original ==
    (pc = "returned" /\ upscaled.kind = "Ok") =>
        IF req.pink.some /\ req.yellow.some /\ (~is_empty(req.pink) \/ ~is_empty(req.yellow))
        THEN EdgeRedrawn
        ELSE out = <<"render">> /\ target = px

\* C20 (amended): a call with both Bounds supplied, empty or not, renders,
\* erases the four edge strips, paints the scaled pink Bounds and then the
\* scaled yellow Bounds, and returns a bitmap whose edge is redrawn.  With no
\* Bounds supplied the bitmap is as rendered.  With one supplied the call
\* renders, or not even that, and returns no bitmap.
C20_RenderErasePinkYellow ==
    /\ pc = "erase" => out = <<"render">> /\ target = px
    /\ pc = "pink" =>
          /\ out = <<"render", "erase_bounds">>
          /\ \A c \in DOMAIN target :
                target[c] = IF OnEdge(c) THEN Transparent ELSE px[c]
    /\ pc = "yellow" =>
          /\ out = <<"render", "erase_bounds", "paint_pink">>
          /\ \A c \in DOMAIN target : target[c] = Yellow => px[c] = Yellow /\ ~OnEdge(c)
    /\ (pc = "returned" /\ req.pink.some /\ req.yellow.some /\ req.w >= 2 /\ req.h >= 2) =>
          /\ upscaled.kind = "Ok"
          /\ DOMAIN target = Coords(upscaled.w, upscaled.h)
          /\ EdgeRedrawn
    /\ (pc = "returned" /\ ~req.pink.some /\ ~req.yellow.some) =>
          /\ upscaled.kind = "Ok"
          /\ out = <<"render">>
          /\ DOMAIN target = Coords(upscaled.w, upscaled.h)
          /\ target = px
    /\ (pc = "returned" /\ req.pink.some # req.yellow.some) =>
          /\ upscaled.kind # "Ok"
          /\ out \in {<<>>, <<"render">>}

\* a bitmap returned whose artwork covered the edge, with a pixel on both
\* marker lines, a pink pixel, an erased pixel and a pixel off the edge
C20_Witness ==
    /\ pc = "returned" /\ upscaled.kind = "Ok" /\ upscaled.has_bounds
    /\ \A c \in DOMAIN px : px[c] = Red
    /\ \E c \in DOMAIN target :
          OnMarker(detected.yellow, c) /\ OnMarker(detected.pink, c) /\ target[c] = Yellow
    /\ \E c \in DOMAIN target : target[c] = Pink
    /\ \E c \in DOMAIN target : OnEdge(c) /\ target[c] = Transparent
    /\ \E c \in DOMAIN target : ~OnEdge(c) /\ target[c] = Red

(***************************************************************************)
(* Properties of the scaled Bounds (SpecFit).                              *)
(***************************************************************************)
\* every field leaves the last pixel of its edge strip free
FitsOutput(bounds) ==
    /\ bounds.l <= entry.w - 2 /\ bounds.r <= entry.w - 2
    /\ bounds.t <= entry.h - 2 /\ bounds.b <= entry.h - 2

\* C21 (as stated): in a border-aware call at a scale of 1 or more whose
\* Bounds came from detection on the source, every scaled field is at most
\* the output width, or height, minus 2, so that in the bitmap returned the
\* marker lines leave the top right and bottom left corner pixels untouched.
C21_Original ==
    /\ (detected.st = "scaled" /\ req.q >= 4) =>
          FitsOutput(detected.pink) /\ FitsOutput(detected.yellow)
    /\ (pc = "returned" /\ upscaled.kind = "Ok" /\ req.q >= 4) =>
          /\ target[<<entry.w - 1, 0>>] = Transparent
          /\ target[<<0, entry.h - 1>>] = Transparent

=============================================================================
